---- MODULE Spec2Model ----
(***************************************************************************)
(* Model of train_plot's main.py: the accelerometer pipeline               *)
(*   load_data -> normalize -> calibrate -> integrate -> integrate         *)
(* and of its functions calibrate and integrate taken alone.               *)
(*                                                                         *)
(* NumPy's float64 values are modelled bit for bit: every operation gives  *)
(* the float64 nearest to the exact result.  A table is a sequence of      *)
(* rows, a row a sequence of floats.  Python's column c of an array is     *)
(* column c + 1 of a row here (TLA+ sequences start at 1).                 *)
(***************************************************************************)
EXTENDS Integers, Sequences, FiniteSets

VARIABLES
    pc,            \* position in the __main__ script / name of the driver
    loaded,        \* the table load_data returned (the arguments as first given)
    arr,           \* the N x 4 array `arr`; `times` and `accel` are views of it
    speeds,        \* the array `speeds` (the result of the last integrate call)
    positions,     \* the array `positions`
    static_times,  \* the static_times argument of calibrate
    pre,           \* the accel view as it was when the last call was made
                   \* (after the script: the tables as they were then)
    hist,          \* the calls made so far, in order
    err,           \* the exception that ended the run, or "none"
    base           \* whose memory `speeds` and `positions` are stored in

vars == <<pc, loaded, arr, speeds, positions, static_times, pre, hist, err, base>>

----------------------------------------------------------------------------
(* Bounds of the model *)

\* largest number of data rows of accel.csv in the pipeline
MaxRows == 3
\* largest number of rows of a table handed to a function called alone
MaxLen == 3
\* largest number of calls of calibrate made on one table
MaxCalls == 2

\* longest constant-rate table with uniform sample times given to integrate
UniformLen == 6

----------------------------------------------------------------------------
(* Natural numbers of any size: the limbs, least significant first, no      *)
(* leading zero limb (TLC's integers have 32 bits, a float64 product 106)   *)

LimbBits == 15

LimbBase == 32768

RECURSIVE Pow2(_)
Pow2(n) == IF n = 0 THEN 1 ELSE 2 * Pow2(n - 1)

RECURSIVE BigOf(_)
BigOf(n) == IF n = 0 THEN <<>> ELSE <<n % LimbBase>> \o BigOf(n \div LimbBase)

RECURSIVE Trim(_)
Trim(x) ==
    IF x = <<>> THEN <<>>
    ELSE IF x[Len(x)] = 0 THEN Trim(SubSeq(x, 1, Len(x) - 1))
    ELSE x

Limb(x, i) == IF i <= Len(x) THEN x[i] ELSE 0

RECURSIVE BAddFrom(_, _, _, _)
BAddFrom(x, y, i, carry) ==
    IF i > Len(x) /\ i > Len(y)
    THEN IF carry = 0 THEN <<>> ELSE <<carry>>
    ELSE LET s == Limb(x, i) + Limb(y, i) + carry
         IN  <<s % LimbBase>> \o BAddFrom(x, y, i + 1, s \div LimbBase)

BAdd(x, y) == BAddFrom(x, y, 1, 0)

\* x - y for x >= y
RECURSIVE BSubFrom(_, _, _, _)
BSubFrom(x, y, i, borrow) ==
    IF i > Len(x) THEN <<>>
    ELSE LET d == Limb(x, i) - Limb(y, i) - borrow
         IN  IF d < 0 THEN <<d + LimbBase>> \o BSubFrom(x, y, i + 1, 1)
             ELSE <<d>> \o BSubFrom(x, y, i + 1, 0)

BSub(x, y) == Trim(BSubFrom(x, y, 1, 0))

\* -1, 0, 1 as x <, =, > y, comparing from limb i down
RECURSIVE BCmpFrom(_, _, _)
BCmpFrom(x, y, i) ==
    IF i = 0 THEN 0
    ELSE IF x[i] < y[i] THEN -1
    ELSE IF x[i] > y[i] THEN 1
    ELSE BCmpFrom(x, y, i - 1)

BCmp(x, y) ==
    IF Len(x) < Len(y) THEN -1
    ELSE IF Len(x) > Len(y) THEN 1
    ELSE BCmpFrom(x, y, Len(x))

\* x * k for 0 <= k <= LimbBase
RECURSIVE BMulSmallFrom(_, _, _, _)
BMulSmallFrom(x, k, i, carry) ==
    IF i > Len(x) THEN BigOf(carry)
    ELSE LET p == x[i] * k + carry
         IN  <<p % LimbBase>> \o BMulSmallFrom(x, k, i + 1, p \div LimbBase)

BMulSmall(x, k) == Trim(BMulSmallFrom(x, k, 1, 0))

RECURSIVE BMulFrom(_, _, _)
BMulFrom(x, y, i) ==
    IF i > Len(y) THEN <<>>
    ELSE BAdd(BMulSmall(x, y[i]), Trim(<<0>> \o BMulFrom(x, y, i + 1)))

BMul(x, y) == BMulFrom(x, y, 1)

\* quotient and remainder of x by k, 0 < k < LimbBase, from limb i up
RECURSIVE BDivSmallFrom(_, _, _)
BDivSmallFrom(x, k, i) ==
    IF i > Len(x) THEN [q |-> <<>>, r |-> 0]
    ELSE LET hi  == BDivSmallFrom(x, k, i + 1)
             cur == hi.r * LimbBase + x[i]
         IN  [q |-> <<cur \div k>> \o hi.q, r |-> cur % k]

BDivSmall(x, k) ==
    LET d == BDivSmallFrom(x, k, 1) IN [q |-> Trim(d.q), r |-> d.r]

RECURSIVE SmallBitLen(_)
SmallBitLen(n) == IF n = 0 THEN 0 ELSE 1 + SmallBitLen(n \div 2)

BitLen(x) ==
    IF x = <<>> THEN 0 ELSE (Len(x) - 1) * LimbBits + SmallBitLen(x[Len(x)])

\* x * 2^n
Shl(x, n) ==
    IF x = <<>> THEN <<>>
    ELSE [i \in 1..(n \div LimbBits) |-> 0] \o BMulSmall(x, Pow2(n % LimbBits))

\* x \div 2^n
Shr(x, n) ==
    IF n \div LimbBits >= Len(x) THEN <<>>
    ELSE BDivSmall(SubSeq(x, n \div LimbBits + 1, Len(x)), Pow2(n % LimbBits)).q

\* the number of zero bits x ends with, x # 0
RECURSIVE SmallTrailing(_)
SmallTrailing(n) == IF n % 2 = 1 THEN 0 ELSE 1 + SmallTrailing(n \div 2)

RECURSIVE TrailingFrom(_, _)
TrailingFrom(x, i) ==
    IF x[i] = 0 THEN LimbBits + TrailingFrom(x, i + 1) ELSE SmallTrailing(x[i])

Trailing(x) == TrailingFrom(x, 1)

----------------------------------------------------------------------------
(* float64: <<s, m, e>> is the value s * m * 2^e, s the sign (-1, 0, 1),    *)
(* m an odd natural number below 2^53; zero is <<0, <<>>, 0>> (0.0 and -0.0 *)
(* compare equal and are one value here); NaN is <<2, <<>>, 0>>.  Every     *)
(* operation rounds its exact result to the nearest float64, ties to even.  *)
(* Values stay far from the overflow and subnormal ranges.                  *)

MantBits == 53

NaN == <<2, <<>>, 0>>

Zero == <<0, <<>>, 0>>

IsNaN(x) == x[1] = 2

\* s * M * 2^E with the zero bits M ends with moved into the exponent
Canon(s, M, E) ==
    IF M = <<>> THEN Zero
    ELSE LET z == Trailing(M) IN <<s, Shr(M, z), E + z>>

\* s * M * 2^E rounded to MantBits significant bits
RoundTo(s, M, E) ==
    IF BitLen(M) <= MantBits THEN Canon(s, M, E)
    ELSE LET r    == BitLen(M) - MantBits
             q    == Shr(M, r)
             rem  == BSub(M, Shl(q, r))
             c    == BCmp(rem, Shl(<<1>>, r - 1))
             up   == c > 0 \/ (c = 0 /\ q[1] % 2 = 1)
         IN  Canon(s, IF up THEN BAdd(q, <<1>>) ELSE q, E + r)

\* whether s * M * 2^E is a float64 as it stands
Fits(M) == M = <<>> \/ BitLen(M) - Trailing(M) <= MantBits

\* the float of a whole number
Num(n) ==
    IF n = 0 THEN Zero
    ELSE IF n < 0 THEN Canon(-1, BigOf(-n), 0)
    ELSE Canon(1, BigOf(n), 0)

Neg(a) == IF IsNaN(a) THEN NaN ELSE <<-a[1], a[2], a[3]>>

\* the exact sum of two floats, as sign, magnitude and exponent
ExactSum(a, b) ==
    LET e  == IF a[3] < b[3] THEN a[3] ELSE b[3]
        Ma == Shl(a[2], a[3] - e)
        Mb == Shl(b[2], b[3] - e)
        c  == BCmp(Ma, Mb)
    IN  IF a[1] = 0 THEN b
        ELSE IF b[1] = 0 THEN a
        ELSE IF a[1] = b[1] THEN <<a[1], BAdd(Ma, Mb), e>>
        ELSE IF c = 0 THEN Zero
        ELSE IF c > 0 THEN <<a[1], BSub(Ma, Mb), e>>
        ELSE <<b[1], BSub(Mb, Ma), e>>

Add(a, b) ==
    IF IsNaN(a) \/ IsNaN(b) THEN NaN
    ELSE LET x == ExactSum(a, b) IN RoundTo(x[1], x[2], x[3])

Sub(a, b) == Add(a, Neg(b))

Mul(a, b) ==
    IF IsNaN(a) \/ IsNaN(b) THEN NaN
    ELSE RoundTo(a[1] * b[1], BMul(a[2], b[2]), a[3] + b[3])

\* the exact quotient a / k, 0 < k < LimbBase, cut after GuardBits more bits
\* and with a last bit set when anything was cut off (the sticky bit)
GuardBits == 72

Quotient(a, k) ==
    LET d == BDivSmall(Shl(a[2], GuardBits), k)
    IN  <<a[1],
          BAdd(BMulSmall(d.q, 2), IF d.r = 0 THEN <<>> ELSE <<1>>),
          a[3] - GuardBits - 1>>

\* a / k for a count k >= 0; 0.0 / 0 is nan
DivCount(a, k) ==
    IF IsNaN(a) THEN NaN
    ELSE IF k = 0 THEN NaN
    ELSE IF a[1] = 0 THEN Zero
    ELSE LET x == Quotient(a, k) IN RoundTo(x[1], x[2], x[3])

\* a < b on floats: false as soon as one side is NaN
Lt(a, b) == ~IsNaN(a) /\ ~IsNaN(b) /\ ExactSum(a, Neg(b))[1] = -1

\* float("n.ddd"): the float nearest to n / 10^places, places <= 4
Dec(n, places) == DivCount(Num(n), 10 ^ places)

----------------------------------------------------------------------------
(* Module constants *)

\* the literal 9.81
G == Dec(981, 2)

KNOWN_ZEROES ==
    << <<Num(0), Num(47)>>,
       <<Num(540), Num(570)>>,
       <<Num(775), Num(830)>>,
       <<Num(1135), Num(1175)>>,
       <<Num(1710), Num(1755)>> >>

----------------------------------------------------------------------------
(* Views of arr: times = arr[::, :1], accel = arr[::, 1:] *)

Times(a) == [i \in 1..Len(a) |-> a[i][1]]

Accel(a) == [i \in 1..Len(a) |-> <<a[i][2], a[i][3], a[i][4]>>]

\* the array whose first column is t and whose other columns are d
Join(t, d) == [i \in 1..Len(t) |-> <<t[i], d[i][1], d[i][2], d[i][3]>>]

----------------------------------------------------------------------------
(* normalize(data): in place, returns data *)

\* the tuple of `data *= (1.0, -1.0, -1.0, 1.0)`, over (time, x, y, z)
ORIENT_yz == <<Num(1), Num(1), Num(-1), Num(-1)>>
ORIENT == <<Num(1), Num(-1), Num(-1), Num(1)>>

normalize_scale_all(data) ==
    [i \in 1..Len(data) |-> [c \in 1..4 |-> Mul(Mul(data[i][c], ORIENT[c]), G)]]
normalize(data) ==
    LET reoriented ==
            [i \in 1..Len(data) |-> [c \in 1..4 |-> Mul(data[i][c], ORIENT[c])]]
    IN  \* data[::, 1:] *= G
        [i \in 1..Len(data) |->
            [c \in 1..4 |-> IF c >= 2 THEN Mul(reoriented[i][c], G)
                                      ELSE reoriented[i][c]]]

----------------------------------------------------------------------------
(* calibrate(times, data, static_times): in place on data, returns data *)

Width(data) == Len(data[1])

\* (start < times) & (times < stop), for one sample time
InInterval_closed(t, iv) == ~Lt(t, iv[1]) /\ ~Lt(iv[2], t)
InInterval(t, iv) == Lt(iv[1], t) /\ Lt(t, iv[2])

\* np.stack([... for start, stop in static_times], axis=1): one flag per
\* sample and interval
Stacked(times, ivs) ==
    [i \in 1..Len(times) |-> [k \in 1..Len(ivs) |-> InInterval(times[i], ivs[k])]]

\* np.any(..., axis=1).flatten()
Mask(times, ivs) ==
    LET st == Stacked(times, ivs)
    IN  [i \in 1..Len(times) |-> \E k \in 1..Len(ivs) : st[i][k]]

\* data[mask, ::]: the rows whose flag is set, in order, each once
RECURSIVE SelectRows(_, _, _)
SelectRows(data, m, n) ==
    IF n = 0 THEN <<>>
    ELSE IF m[n] THEN Append(SelectRows(data, m, n - 1), data[n])
    ELSE SelectRows(data, m, n - 1)

Selected_all(data, m) == data
Selected(data, m) == SelectRows(data, m, Len(data))

RECURSIVE SumCol(_, _, _)
SumCol(rows, c, n) ==
    IF n = 0 THEN Num(0) ELSE Add(SumCol(rows, c, n - 1), rows[n][c])

\* np.mean(rows, axis=0) of a table of the given width
mean_sum(rows, width) == [c \in 1..width |-> SumCol(rows, c, Len(rows))]
mean(rows, width) ==
    [c \in 1..width |-> DivCount(SumCol(rows, c, Len(rows)), Len(rows))]

Bias(times, data, ivs) == mean(Selected(data, Mask(times, ivs)), Width(data))

\* the outcome of the call: the exception raised (np.stack refuses an empty
\* list) or "none", and data as the call leaves it
calibrate_static_only(times, data, ivs) ==
    IF Len(ivs) = 0 THEN [err |-> "ValueError", data |-> data]
    ELSE LET bias == Bias(times, data, ivs)
             m    == Mask(times, ivs)
         IN  [err  |-> "none",
              data |-> [i \in 1..Len(data) |->
                          [c \in 1..Width(data) |->
                              IF m[i] THEN Sub(data[i][c], bias[c]) ELSE data[i][c]]]]
calibrate(times, data, ivs) ==
    IF Len(ivs) = 0 THEN [err |-> "ValueError", data |-> data]
    ELSE LET bias == Bias(times, data, ivs)
         IN  [err  |-> "none",
              data |-> [i \in 1..Len(data) |->
                          [c \in 1..Width(data) |-> Sub(data[i][c], bias[c])]]]

----------------------------------------------------------------------------
(* integrate(times, points): returns a new array *)

\* np.diff(times, prepend=0.0, axis=0)
diff_prepend_first(times) ==
    [i \in 1..Len(times) |-> Sub(times[i], IF i = 1 THEN times[1] ELSE times[i - 1])]
diff(times) ==
    [i \in 1..Len(times) |-> Sub(times[i], IF i = 1 THEN Num(0) ELSE times[i - 1])]

\* points * delta_t, the (N, 1) column delta_t broadcast over the axes
Weighted_left(points, delta_t) ==
    [i \in 1..Len(points) |->
        [c \in 1..Width(points) |->
            Mul(IF i = 1 THEN Num(0) ELSE points[i - 1][c], delta_t[i])]]
Weighted(points, delta_t) ==
    [i \in 1..Len(points) |->
        [c \in 1..Width(points) |-> Mul(points[i][c], delta_t[i])]]

AddRow(r, s) == [c \in 1..Len(r) |-> Add(r[c], s[c])]

\* np.cumsum(w, axis=0)
cumsum(w) ==
    LET acc[i \in 1..Len(w)] == IF i = 1 THEN w[1] ELSE AddRow(acc[i - 1], w[i])
    IN  [i \in 1..Len(w) |-> acc[i]]

\* the returned array, the two arguments as the call leaves them, and whether
\* the returned array is memory of its own: points * delta_t and np.cumsum
\* (called without out=) each allocate their result
integrate_inplace(times, points) ==
    LET w == Weighted(points, diff(times))
    IN  [ret |-> cumsum(w), times |-> times, points |-> cumsum(w), fresh |-> FALSE]
integrate(times, points) ==
    [ret    |-> cumsum(Weighted(points, diff(times))),
     times  |-> times,
     points |-> points,
     fresh  |-> TRUE]

----------------------------------------------------------------------------
(* The tables the model is run on *)

\* csv_data_formatter(raw): a field with `places` digits after the "," or
\* "." and the digits n, as the float nearest to it
csv_data_formatter(n, places) == Dec(n, places)

Row(x, y, z) == <<Num(x), Num(y), Num(z)>>

\* sample times (s) of the recorded trip: on the bounds of the first entry of
\* KNOWN_ZEROES, inside it, and inside the second entry
PipeTimes == {Num(0), Num(10), Num(20), Num(47), Num(550)}

\* the readings of one line of accel.csv, in g: "0,1;0;1", "-1;2;1", "0;-1;2"
RawRows ==
    {<<csv_data_formatter(1, 1), csv_data_formatter(0, 0), csv_data_formatter(1, 0)>>,
     <<csv_data_formatter(-1, 0), csv_data_formatter(2, 0), csv_data_formatter(1, 0)>>,
     <<csv_data_formatter(0, 0), csv_data_formatter(-1, 0), csv_data_formatter(2, 0)>>}

\* the time columns of n samples, each later than the one before
Increasing(n, T) ==
    {t \in [1..n -> T] : \A i \in 1..(n - 1) : Lt(t[i], t[i + 1])}

\* np.loadtxt gives a 2-dimensional array from two data rows on
PipeTables ==
    UNION {{Join(t, d) : t \in Increasing(n, PipeTimes), d \in [1..n -> RawRows]} :
           n \in 2..MaxRows}

FnTimes == {Num(1), Num(2), Num(3), Num(4)}

FnRows == {Row(1, 2, 3), Row(2, 0, 3), <<Dec(1, 1), Dec(1, 1), Dec(1, 1)>>}

FnTables ==
    UNION {{Join(t, d) : t \in Increasing(n, FnTimes), d \in [1..n -> FnRows]} :
           n \in 1..MaxLen}

\* a constant rate sampled at times 1, 2, ..., n
UniformTables ==
    {[i \in 1..n |-> <<Num(i)>> \o r] : n \in 1..UniformLen, r \in FnRows}

IvA == <<Num(0), Num(3)>>
IvB == <<Num(1), Num(4)>>
IvC == <<Num(5), Num(6)>>

StaticChoices == {<<>>, <<IvA>>, <<IvA, IvB>>, <<IvC>>, <<IvC, IvB>>}

----------------------------------------------------------------------------
(* The __main__ script *)

\* every array in memory of its own; "accel" is the memory of arr
OwnMemory == [speeds |-> "speeds", positions |-> "positions"]

\* the memory the array called nm is stored in
Store(nm) == IF nm = "accel" THEN "accel" ELSE base[nm]

\* the array called nm, now cur, after the table v is written through the
\* array called target: it is v if the two are the same memory
Written(target, v, nm, cur) == IF Store(nm) = Store(target) THEN v ELSE cur

Init ==
    /\ pc = "loaded"
    /\ loaded \in PipeTables
    /\ arr = loaded
    /\ speeds = <<>>
    /\ positions = <<>>
    /\ static_times = KNOWN_ZEROES
    /\ pre = <<>>
    /\ hist = <<>>
    /\ err = "none"
    /\ base = OwnMemory

\* arr = normalize(arr)
Normalize ==
    /\ pc = "loaded"
    /\ arr' = normalize(arr)
    /\ pc' = "normalized"
    /\ UNCHANGED <<loaded, speeds, positions, static_times, pre, hist, err, base>>

\* accel = calibrate(times, accel, KNOWN_ZEROES), accel a view of arr
Calibrate ==
    /\ pc = "normalized"
    /\ LET r == calibrate(Times(arr), Accel(arr), static_times)
       IN  /\ arr' = Join(Times(arr), r.data)
           /\ err' = r.err
    /\ pc' = "calibrated"
    /\ UNCHANGED <<loaded, speeds, positions, static_times, pre, hist, base>>

\* speeds = integrate(times, accel)
IntegrateSpeeds ==
    /\ pc = "calibrated"
    /\ err = "none"
    /\ LET r == integrate(Times(arr), Accel(arr))
       IN  /\ speeds' = r.ret
           /\ arr' = Join(r.times, r.points)
           /\ base' = [base EXCEPT !.speeds = IF r.fresh THEN "speeds" ELSE "accel"]
    /\ pc' = "integrated"
    /\ UNCHANGED <<loaded, positions, static_times, pre, hist, err>>

\* positions = integrate(times, speeds)
IntegratePositions ==
    /\ pc = "integrated"
    /\ LET r == integrate(Times(arr), speeds)
       IN  /\ positions' = r.ret
           /\ speeds' = r.points
           /\ arr' = Join(r.times, Written("speeds", r.points, "accel", Accel(arr)))
           /\ base' = [base EXCEPT
                         !.positions = IF r.fresh THEN "positions" ELSE Store("speeds")]
    /\ pc' = "done"
    /\ UNCHANGED <<loaded, static_times, pre, hist, err>>

Next == Normalize \/ Calibrate \/ IntegrateSpeeds \/ IntegratePositions

Spec == Init /\ [][Next]_vars

----------------------------------------------------------------------------
(* The script followed by writes to the tables the derived ones were made   *)
(* from: both functions that write do so in place, through their argument   *)

Tables == [accel |-> Accel(arr), speeds |-> speeds, positions |-> positions]

Range(f) == {f[i] : i \in DOMAIN f}

\* normalize(arr) once more: data *= ... writes arr, and so accel, in place
NormalizeAgain ==
    /\ pc = "done"
    /\ "accel" \notin Range(hist)
    /\ arr' = normalize(arr)
    /\ speeds' = Written("accel", Accel(arr'), "speeds", speeds)
    /\ positions' = Written("accel", Accel(arr'), "positions", positions)
    /\ pre' = Tables
    /\ hist' = Append(hist, "accel")
    /\ UNCHANGED <<pc, loaded, static_times, err, base>>

\* speeds = calibrate(times, speeds, KNOWN_ZEROES), the call the script holds
\* ready in a comment: data -= bias writes speeds in place
CalibrateSpeeds ==
    /\ pc = "done"
    /\ "speeds" \notin Range(hist)
    /\ LET r == calibrate(Times(arr), speeds, static_times)
       IN  /\ speeds' = r.data
           /\ arr' = Join(Times(arr), Written("speeds", r.data, "accel", Accel(arr)))
           /\ positions' = Written("speeds", r.data, "positions", positions)
           /\ err' = r.err
    /\ pre' = Tables
    /\ hist' = Append(hist, "speeds")
    /\ UNCHANGED <<pc, loaded, static_times, base>>

NextWrites == Next \/ NormalizeAgain \/ CalibrateSpeeds

SpecWrites == Init /\ [][NextWrites]_vars

----------------------------------------------------------------------------
(* calibrate called alone, up to MaxCalls times, on the views of one table *)

InitCal ==
    /\ pc = "calibrate"
    /\ loaded \in FnTables
    /\ arr = loaded
    /\ speeds = <<>>
    /\ positions = <<>>
    /\ static_times \in StaticChoices
    /\ pre = Accel(loaded)
    /\ hist = <<>>
    /\ err = "none"
    /\ base = OwnMemory

CallCalibrate ==
    /\ pc = "calibrate"
    /\ err = "none"
    /\ Len(hist) < MaxCalls
    /\ LET r == calibrate(Times(arr), Accel(arr), static_times)
       IN  /\ arr' = Join(Times(arr), r.data)
           /\ err' = r.err
    /\ pre' = Accel(arr)
    /\ hist' = Append(hist, "calibrate")
    /\ UNCHANGED <<pc, loaded, speeds, positions, static_times, base>>

SpecCal == InitCal /\ [][CallCalibrate]_vars

----------------------------------------------------------------------------
(* integrate called alone on the views of one table *)

InitInt ==
    /\ pc = "integrate"
    /\ loaded \in FnTables \cup UniformTables
    /\ arr = loaded
    /\ speeds = <<>>
    /\ positions = <<>>
    /\ static_times = <<>>
    /\ pre = Accel(loaded)
    /\ hist = <<>>
    /\ err = "none"
    /\ base = OwnMemory

CallIntegrate ==
    /\ pc = "integrate"
    /\ hist = <<>>
    /\ LET r == integrate(Times(arr), Accel(arr))
       IN  /\ speeds' = r.ret
           /\ arr' = Join(r.times, r.points)
           /\ base' = [base EXCEPT !.speeds = IF r.fresh THEN "speeds" ELSE "accel"]
    /\ pre' = Accel(arr)
    /\ hist' = Append(hist, "integrate")
    /\ UNCHANGED <<pc, loaded, positions, static_times, err>>

SpecInt == InitInt /\ [][CallIntegrate]_vars

----------------------------------------------------------------------------
(* Vocabulary of the properties *)

LastCall == IF hist = <<>> THEN "none" ELSE hist[Len(hist)]

Returned(f) == LastCall = f /\ err = "none"

N == Len(loaded)

\* -1, 0 or 1; 2 for NaN
Sign(a) == a[1]

ZeroRow == <<Zero, Zero, Zero>>

NaNRow == <<NaN, NaN, NaN>>

AllRows(tbl, r) == \A i \in 1..Len(tbl) : tbl[i] = r

\* the whole number a float stands for; the sample times and the interval
\* bounds are whole numbers of seconds in every table of the model
WholeOf(a) ==
    a[1] * Pow2(a[3]) * (Limb(a[2], 1) + LimbBase * Limb(a[2], 2))

\* the samples strictly inside at least one interval
StaticSet(t, ivs) ==
    {i \in 1..Len(t) :
        \E k \in 1..Len(ivs) :
            WholeOf(ivs[k][1]) < WholeOf(t[i]) /\ WholeOf(t[i]) < WholeOf(ivs[k][2])}

OnBound(t, ivs, i) ==
    \E k \in 1..Len(ivs) : t[i] = ivs[k][1] \/ t[i] = ivs[k][2]

Last(S) == CHOOSE i \in S : \A j \in S : j <= i

\* the float64 sum of column c over the rows S, added in the order of the rows
RECURSIVE SumOver(_, _, _)
SumOver(S, data, c) ==
    IF S = {} THEN Zero
    ELSE Add(SumOver(S \ {Last(S)}, data, c), data[Last(S)][c])

\* the float64 mean of column c over the rows S
MeanOver(S, data, c) == DivCount(SumOver(S, data, c), Cardinality(S))

SubRow(r, s) == [c \in 1..Len(r) |-> Sub(r[c], s[c])]

\* none of the additions of SumOver rounds
RECURSIVE SumsExact(_, _, _)
SumsExact(S, data, c) ==
    \/ S = {}
    \/ /\ SumsExact(S \ {Last(S)}, data, c)
       /\ Fits(ExactSum(SumOver(S \ {Last(S)}, data, c), data[Last(S)][c])[2])

\* no operation of calibrate rounds, on data whose static rows are S: the
\* sums, the division by the count, the subtraction from every row
CalibrateExact(S, data) ==
    \A c \in 1..3 :
        /\ SumsExact(S, data, c)
        /\ SumOver(S, data, c) # Zero =>
              Fits(Quotient(SumOver(S, data, c), Cardinality(S))[2])
        /\ \A i \in 1..Len(data) :
              Fits(ExactSum(data[i][c], Neg(MeanOver(S, data, c)))[2])

----------------------------------------------------------------------------
(* C1: normalize and the axes *)

\* C1 as stated: after normalize, in every row x keeps its sign and y and z
\* change theirs.
C1_FlipsYZ ==
    pc = "normalized" =>
        \A i \in 1..N :
            /\ Sign(arr[i][2]) = Sign(loaded[i][2])
            /\ Sign(arr[i][3]) = -Sign(loaded[i][3])
            /\ Sign(arr[i][4]) = -Sign(loaded[i][4])

\* C1 amended: after normalize, in every row x (column 1) and y (column 2)
\* have the opposite sign of the input and z (column 3) keeps its sign.
C1_FlipsXY ==
    pc = "normalized" =>
        \A i \in 1..N :
            /\ Sign(arr[i][2]) = -Sign(loaded[i][2])
            /\ Sign(arr[i][3]) = -Sign(loaded[i][3])
            /\ Sign(arr[i][4]) = Sign(loaded[i][4])

C1_Witness ==
    /\ pc = "normalized"
    /\ \E i \in 1..N :
        /\ Sign(loaded[i][2]) = -1 /\ Sign(arr[i][2]) = 1
        /\ Sign(loaded[i][3]) = 1 /\ Sign(arr[i][3]) = -1
        /\ Sign(loaded[i][4]) = 1 /\ Sign(arr[i][4]) = 1

----------------------------------------------------------------------------
(* C2: the time column *)

\* C2: at every stage of the script the time column of arr is the one load_data
\* delivered, and arr, speeds and positions have the loaded number of rows.
C2_TimeColumnKept ==
    /\ Len(arr) = N
    /\ \A i \in 1..N : arr[i][1] = loaded[i][1]
    /\ pc \in {"integrated", "done"} => Len(speeds) = N
    /\ pc = "done" => Len(positions) = N

C2_Witness ==
    /\ pc = "done"
    /\ Accel(arr) # Accel(loaded)
    /\ \E i \in 1..N : loaded[i][1] # Zero /\ arr[i][1] = loaded[i][1]

----------------------------------------------------------------------------
(* C3: the mask of calibrate *)

\* C3: a sample is static iff it lies strictly inside at least one interval;
\* a sample on a bound and strictly inside no interval is not static; the rows
\* averaged are the static samples, each once, and the bias subtracted is the
\* mean over them.
C3_StrictMaskOnce ==
    Returned("calibrate") =>
        LET t == Times(arr)
            m == Mask(t, static_times)
            S == StaticSet(t, static_times)
        IN  /\ \A i \in 1..N : m[i] <=> i \in S
            /\ \A i \in 1..N : (OnBound(t, static_times, i) /\ i \notin S) => ~m[i]
            /\ Len(Selected(pre, m)) = Cardinality(S)
            /\ \A i \in 1..N : \A c \in 1..3 :
                  arr[i][c + 1] = Sub(pre[i][c], MeanOver(S, pre, c))

C3_Witness ==
    /\ Returned("calibrate")
    /\ static_times = <<IvA, IvB>>
    /\ \E i, j \in 1..N :
        /\ InInterval(arr[i][1], IvA) /\ InInterval(arr[i][1], IvB)
        /\ arr[j][1] = IvB[2]
        /\ Mask(Times(arr), static_times)[i]
        /\ ~Mask(Times(arr), static_times)[j]
        /\ Cardinality(StaticSet(Times(arr), static_times)) = 1
        /\ Accel(arr)[i] = ZeroRow
        /\ pre[i] # ZeroRow

----------------------------------------------------------------------------
(* C4: the bias *)

\* C4 as stated: with a static sample, if every static row is b, the bias is b:
\* every static row becomes (0,0,0) and every other row its offset from b.
C4_EqualRowsGiveZero ==
    (Returned("calibrate") /\ StaticSet(Times(arr), static_times) # {}) =>
        LET S == StaticSet(Times(arr), static_times)
            a == Accel(arr)
        IN  \A b \in {pre[i] : i \in S} :
                (\A i \in S : pre[i] = b) =>
                    \A i \in 1..N : \A c \in 1..3 :
                        a[i][c] = IF i \in S THEN Zero ELSE Sub(pre[i][c], b[c])

\* C4 amended: with a static sample, calibrate subtracts from every row the
\* float64 mean of the data over exactly the static samples (their sum in row
\* order, divided by their number, each operation rounded); if every static
\* row is b and the sums of the static rows are exact (always so with one or
\* two static rows), the bias is b: static rows become (0,0,0) and every other
\* row the float64 difference between it and b.
C4_BiasIsStaticMean ==
    (Returned("calibrate") /\ StaticSet(Times(arr), static_times) # {}) =>
        LET S == StaticSet(Times(arr), static_times)
            a == Accel(arr)
        IN  /\ \A i \in 1..N : \A c \in 1..3 :
                 a[i][c] = Sub(pre[i][c], MeanOver(S, pre, c))
            /\ \A b \in {pre[i] : i \in S} :
                 ((\A i \in S : pre[i] = b)
                    /\ (Cardinality(S) <= 2 \/ \A c \in 1..3 : SumsExact(S, pre, c))) =>
                     \A i \in 1..N :
                        a[i] = IF i \in S THEN ZeroRow ELSE SubRow(pre[i], b)

C4_Witness ==
    /\ Returned("calibrate")
    /\ \E i, j \in 1..N :
        /\ i \in StaticSet(Times(arr), static_times)
        /\ j \notin StaticSet(Times(arr), static_times)
        /\ Cardinality(StaticSet(Times(arr), static_times)) = 2
        /\ \A k \in StaticSet(Times(arr), static_times) : pre[k] = Row(1, 2, 3)
        /\ pre[j] = Row(2, 0, 3)
        /\ Accel(arr)[i] = ZeroRow
        /\ Accel(arr)[j] = Row(1, -2, 0)

----------------------------------------------------------------------------
(* C5: no static sample *)

\* C5 as stated: called with an empty interval list, or with intervals that
\* hold no sample time, calibrate raises nothing and leaves NaN in every row.
C5_NaNNeverRaises ==
    (LastCall = "calibrate"
        /\ (static_times = <<>> \/ StaticSet(Times(arr), static_times) = {})) =>
        /\ err = "none"
        /\ AllRows(Accel(arr), NaNRow)

\* What the code does instead: with a non-empty list whose intervals hold no
\* sample time it raises nothing and leaves NaN in every row; with an empty
\* list np.stack raises ValueError and the data stay as they were.
C5_NaNOrValueError ==
    /\ (LastCall = "calibrate" /\ static_times # <<>>
            /\ StaticSet(Times(arr), static_times) = {}) =>
          (err = "none" /\ AllRows(Accel(arr), NaNRow))
    /\ (LastCall = "calibrate" /\ static_times = <<>>) =>
          (err = "ValueError" /\ Accel(arr) = pre)

\* calibrate was called with an empty list and raised
C5_Witness ==
    /\ LastCall = "calibrate"
    /\ static_times = <<>>
    /\ err = "ValueError"
    /\ Accel(arr) = pre
    /\ ~AllRows(Accel(arr), NaNRow)

----------------------------------------------------------------------------
(* C6: the running integral *)

\* the time step ending at sample k, the first one measured from time zero
Step(t, k) == Sub(t[k], IF k = 1 THEN Zero ELSE t[k - 1])

\* the float64 running sum: over k = 1..i, rate_k * dt_k rounded, added in
\* order, each sum rounded
RECURSIVE RunningSum(_, _, _, _)
RunningSum(t, rate, c, i) ==
    IF i = 0 THEN Zero
    ELSE Add(RunningSum(t, rate, c, i - 1), Mul(rate[i][c], Step(t, i)))

\* the same sum in exact arithmetic, as sign, magnitude and exponent; the time
\* steps of the model's tables are exact
RECURSIVE RealSum(_, _, _, _)
RealSum(t, rate, c, i) ==
    IF i = 0 THEN Zero
    ELSE LET r == rate[i][c]
             d == Step(t, i)
         IN  ExactSum(RealSum(t, rate, c, i - 1),
                      <<r[1] * d[1], BMul(r[2], d[2]), r[3] + d[3]>>)

\* whether a number given as sign, magnitude and exponent is this float
Is(x, a) == Canon(x[1], x[2], x[3]) = a

\* no product and no sum of the running sum up to row i rounds
RunExact(t, rate, c, i) ==
    \A k \in 1..i :
        /\ Fits(BMul(rate[k][c][2], Step(t, k)[2]))
        /\ Fits(RealSum(t, rate, c, k)[2])

\* the time column is D, 2D, 3D, ...
Uniform(t, D) == \A k \in 1..Len(t) : t[k] = Num(k * D)

\* r * n in exact arithmetic, n a whole number > 0
TimesWhole(r, n) == <<r[1], BMulSmall(r[2], n), r[3]>>

\* the float64 nearest to r * n, n a whole number > 0
NearestTimesWhole(r, n) == RoundTo(r[1], BMulSmall(r[2], n), r[3])

\* C6 as stated: integrate returns an N x 3 table whose row i is the running
\* sum of rate times time step, its first row is rate_0 * t_0, and for a
\* constant rate r on the uniform steps D, 2D, ... row i (counted from 0) is
\* r * (i + 1) * D, as a float64 the one nearest to that product.
C6_ClosedForm ==
    Returned("integrate") =>
        LET t == Times(arr) IN
        /\ Len(speeds) = N
        /\ \A i \in 1..N : \A c \in 1..3 : speeds[i][c] = RunningSum(t, pre, c, i)
        /\ \A c \in 1..3 : speeds[1][c] = Mul(pre[1][c], t[1])
        /\ \A D \in 1..4 :
             (Uniform(t, D) /\ AllRows(pre, pre[1])) =>
                 \A i \in 1..N : \A c \in 1..3 :
                    speeds[i][c] = NearestTimesWhole(pre[1][c], i * D)

\* C6 amended: integrate returns an N x 3 table whose row i is, per axis, the
\* float64 running sum over the samples up to i of rate times time step (every
\* product and every partial sum rounded to the nearest float64), the first
\* step measured from time zero; its first row is rate_0 * t_0 rounded; it is
\* the exact sum, and for a constant rate r on the uniform steps D, 2D, ...
\* exactly r * (i + 1) * D, whenever none of these operations rounds.
C6_RunningSum ==
    Returned("integrate") =>
        LET t == Times(arr) IN
        /\ Len(speeds) = N
        /\ \A i \in 1..N :
             /\ Len(speeds[i]) = 3
             /\ \A c \in 1..3 : speeds[i][c] = RunningSum(t, pre, c, i)
        /\ \A c \in 1..3 : speeds[1][c] = Mul(pre[1][c], t[1])
        /\ \A i \in 1..N : \A c \in 1..3 :
             RunExact(t, pre, c, i) =>
                /\ Is(RealSum(t, pre, c, i), speeds[i][c])
                /\ \A D \in 1..4 :
                     (Uniform(t, D) /\ AllRows(pre, pre[1])) =>
                        Is(TimesWhole(pre[1][c], i * D), speeds[i][c])

C6_Witness ==
    /\ Returned("integrate")
    /\ N >= 2
    /\ Uniform(Times(arr), 2)
    /\ AllRows(pre, Row(1, 2, 3))
    /\ \A c \in 1..3 : RunExact(Times(arr), pre, c, N)
    /\ speeds[1] = Row(2, 4, 6)
    /\ speeds[N] = Row(2 * N, 4 * N, 6 * N)

----------------------------------------------------------------------------
(* C7: constant readings end to end *)

\* C7 as stated: if every loaded row has the same acceleration triple and some
\* sample time lies strictly inside a static interval, the calibrated
\* acceleration, the velocity and the position are all-zero tables.
C7_ConstantGivesZero ==
    (pc = "done" /\ AllRows(Accel(loaded), Accel(loaded)[1])
        /\ StaticSet(Times(loaded), static_times) # {}) =>
        /\ AllRows(Accel(arr), ZeroRow)
        /\ AllRows(speeds, ZeroRow)
        /\ AllRows(positions, ZeroRow)

\* C7 amended: if every loaded row has the same acceleration triple and one or
\* two sample times lie strictly inside a static interval, the calibrated
\* acceleration, the velocity and the position are all-zero tables; and
\* whenever the calibrated acceleration is all zero, so are velocity and
\* position.
C7_OneOrTwoStaticGiveZero ==
    /\ (pc = "done" /\ AllRows(Accel(loaded), Accel(loaded)[1])
            /\ Cardinality(StaticSet(Times(loaded), static_times)) \in {1, 2}) =>
          /\ AllRows(Accel(arr), ZeroRow)
          /\ AllRows(speeds, ZeroRow)
          /\ AllRows(positions, ZeroRow)
    /\ (pc = "done" /\ AllRows(Accel(arr), ZeroRow)) =>
          (AllRows(speeds, ZeroRow) /\ AllRows(positions, ZeroRow))

C7_Witness ==
    /\ pc = "done"
    /\ AllRows(Accel(loaded), <<Dec(1, 1), Zero, Num(1)>>)
    /\ Cardinality(StaticSet(Times(loaded), static_times)) = 2
    /\ \E i \in 1..N : Times(loaded)[i] = Num(47)
    /\ AllRows(Accel(arr), ZeroRow)
    /\ AllRows(positions, ZeroRow)

----------------------------------------------------------------------------
(* C8: the rectangle rule *)

ScaleRow(r, x) == [c \in 1..Len(r) |-> Mul(r[c], x)]

\* row i of the integral, from row i - 1 and what the step to sample i adds
Advance(out, i, contribution) ==
    IF i = 1 THEN contribution ELSE AddRow(out[i - 1], contribution)

\* C8 as stated: the step from t_(i-1) to t_i contributes the rate at the
\* start of that step, rate_(i-1), times the length of the step.
C8_LeftRule ==
    Returned("integrate") =>
        \A i \in 2..N :
            speeds[i] = Advance(speeds, i, ScaleRow(pre[i - 1], Step(Times(arr), i)))

\* C8 amended: the step from t_(i-1) to t_i (t_(-1) = 0) contributes the rate
\* at the end of that step, rate_i, times the length of the step.
C8_RightRule ==
    Returned("integrate") =>
        \A i \in 1..N :
            speeds[i] = Advance(speeds, i, ScaleRow(pre[i], Step(Times(arr), i)))

C8_Witness ==
    /\ Returned("integrate")
    /\ N = 2
    /\ pre[1] = Row(1, 2, 3)
    /\ pre[2] = Row(2, 0, 3)
    /\ Times(arr) = <<Num(1), Num(3)>>
    /\ speeds[2] = Row(5, 2, 9)

----------------------------------------------------------------------------
(* C9: integrate and its arguments *)

\* C9: the step computing the velocity leaves every value of arr (the time
\* column and the calibrated acceleration) unchanged, the step computing the
\* position leaves arr and the velocity table unchanged, and a later write to
\* an input leaves the tables derived from it unchanged: writing the
\* acceleration in place changes neither velocity nor position, and writing
\* the velocity in place changes neither arr nor the position.
C9_IntegrateLeavesArguments ==
    [][/\ pc = "calibrated" => arr' = arr
       /\ pc = "integrated" => (arr' = arr /\ speeds' = speeds)
       /\ (pc = "done" /\ "accel" \in Range(hist') \ Range(hist)) =>
             (speeds' = speeds /\ positions' = positions)
       /\ (pc = "done" /\ "speeds" \in Range(hist') \ Range(hist)) =>
             (arr' = arr /\ positions' = positions)]_vars

\* both writes made: the acceleration is no longer the one the velocity came
\* from, the velocity no longer the one the position came from
C9_Witness ==
    /\ pc = "done"
    /\ hist = <<"accel", "speeds">>
    /\ pre.speeds # speeds
    /\ pre.accel = Accel(arr)
    /\ pre.speeds # integrate(Times(arr), Accel(arr)).ret
    /\ pre.positions = positions
    /\ ~AllRows(positions, ZeroRow)
    /\ positions = integrate(Times(arr), pre.speeds).ret
    /\ \E i \in 1..N : Times(arr)[i] = Num(47)

----------------------------------------------------------------------------
(* C10: calibrate twice *)

\* C10: in exact arithmetic, that is when no operation of the calls rounds:
\* after a call of calibrate that found a static sample the per-axis mean of
\* the table over the static samples is zero, and a second call with the same
\* time column and interval list then leaves every row unchanged.
C10_CalibrateIdempotent ==
    (Returned("calibrate") /\ StaticSet(Times(arr), static_times) # {}) =>
        LET S == StaticSet(Times(arr), static_times) IN
        /\ (CalibrateExact(S, pre) /\ \A c \in 1..3 : SumsExact(S, Accel(arr), c)) =>
              \A c \in 1..3 : MeanOver(S, Accel(arr), c) = Zero
        /\ (Len(hist) >= 2 /\ \A c \in 1..3 : MeanOver(S, pre, c) = Zero) =>
              Accel(arr) = pre
        /\ (Len(hist) = 2 /\ CalibrateExact(S, Accel(loaded)) /\ CalibrateExact(S, pre)) =>
              Accel(arr) = pre

C10_Witness ==
    /\ hist = <<"calibrate", "calibrate">>
    /\ err = "none"
    /\ Cardinality(StaticSet(Times(arr), static_times)) = 2
    /\ CalibrateExact(StaticSet(Times(arr), static_times), Accel(loaded))
    /\ CalibrateExact(StaticSet(Times(arr), static_times), pre)
    /\ Accel(loaded) # pre
    /\ Accel(arr) = pre
    /\ ~AllRows(pre, ZeroRow)

====
